---- MODULE Spec2Model ----
(***************************************************************************)
(* Safe evacuation routing of climate-sentinel: the FastAPI handlers       *)
(* get_wildfires and calculate_route of backend/main.py, the hazard loader *)
(* get_wildfire_data of backend/load_fire_data.py and the standalone       *)
(* script generate_evacuation_route.py.                                    *)
(*                                                                         *)
(* Coordinates are integers in units of 0.00001 degree, so that the        *)
(* four-decimal formatting of the cache key is a real rounding.  Lengths   *)
(* are integers in metres.  Python objects that are shared by reference    *)
(* (networkx graphs) live in `heap' and are named by object identifiers.   *)
(***************************************************************************)
EXTENDS Integers, Sequences, FiniteSets, TLC

\* Number of request slots of the server.
NumReqs == 2

VARIABLES
    program,             \* which program runs: "server" (uvicorn) or "script"
    db,                  \* rows of the Fires table for FIRE_YEAR=2015, STATE='CA'
    world,               \* the road network the Network Provider (osmnx) serves
    graph_cache,         \* main.py graph_cache: key -> object identifier
    wildfire_data_cache, \* main.py wildfire_data_cache: key -> hotspots
    heap,                \* object identifier -> graph (nodes, edges)
    builds,              \* log of ox.graph_from_bbox calls
    running,             \* request that holds the event loop, 0 when none
    pc,                  \* position of every request
    request,             \* inputs of every request
    frame,               \* local variables of every request
    response,            \* caller-visible outcome of every request
    doneAtArrival,       \* requests already answered when a request arrived
    trial                \* one run of the exclusion and routing steps by themselves

vars == <<trial, program, db, world, graph_cache, wildfire_data_cache, heap, builds,
          running, pc, request, frame, response, doneAtArrival>>

Reqs == 1..NumReqs

Max(a, b) == IF a >= b THEN a ELSE b
Min(a, b) == IF a <= b THEN a ELSE b

(***************************************************************************)
(* Python values: a list or None.                                          *)
(***************************************************************************)
PyNone == [isNone |-> TRUE, rows |-> <<>>]
PyList(s) == [isNone |-> FALSE, rows |-> s]
\* `not x' of Python for a list or None
Falsy(v) == v.isNone \/ v.rows = <<>>

(***************************************************************************)
(* Road networks.  A graph is a set of node ids and a set of directed      *)
(* edges <<u, v, length>>; the x (longitude) and y (latitude) attributes   *)
(* of a node are fixed by its id.                                          *)
(***************************************************************************)
Origin == [lat |-> 3785000, lon |-> -12226000]

NodePos(n) ==
    CASE n = 1 -> [y |-> Origin.lat, x |-> Origin.lon]
      [] n = 2 -> [y |-> Origin.lat, x |-> Origin.lon + 600]
      [] n = 3 -> [y |-> Origin.lat, x |-> Origin.lon + 1200]
      [] n = 4 -> [y |-> Origin.lat, x |-> Origin.lon + 1800]
      [] n = 5 -> [y |-> Origin.lat, x |-> Origin.lon + 2400]
      [] OTHER -> [y |-> Origin.lat + 1500, x |-> Origin.lon + 1200]

TwoWay(u, v, len) == {<<u, v, len>>, <<v, u, len>>}

\* five nodes in a line, 600 m apart
LineGraph ==
    [nodes |-> 1..5,
     edges |-> TwoWay(1, 2, 600) \cup TwoWay(2, 3, 600)
               \cup TwoWay(3, 4, 600) \cup TwoWay(4, 5, 600)]

\* the line with a bypass 1-6-5 of 2000 m legs
BypassGraph ==
    [nodes |-> 1..6,
     edges |-> LineGraph.edges \cup TwoWay(1, 6, 2000) \cup TwoWay(6, 5, 2000)]

\* the line driven one way only, from 5 down to 1, and a second route 1-6-5
\* of the same length as the line
OneWayGraph ==
    [nodes |-> 1..6,
     edges |-> {<<5, 4, 600>>, <<4, 3, 600>>, <<3, 2, 600>>, <<2, 1, 600>>}
               \cup TwoWay(5, 6, 1200) \cup {<<6, 1, 1200>>}]

Worlds == {LineGraph, BypassGraph, OneWayGraph}

EmptyGraph == [nodes |-> {}, edges |-> {}]

\* remove_nodes_from that removes nothing
remove_nodes_from_nothing(g, ns) == g

\* networkx Graph.remove_nodes_from: the nodes and every edge incident to them
remove_nodes_from(g, ns) ==
    [nodes |-> g.nodes \ ns,
     edges |-> {e \in g.edges : e[1] \notin ns /\ e[2] \notin ns}]

\* squared planar distance of node n from the point (X, Y)
Dist2(n, X, Y) ==
    (NodePos(n).x - X) * (NodePos(n).x - X) + (NodePos(n).y - Y) * (NodePos(n).y - Y)

\* ox.nearest_nodes(G, X, Y): the nodes of g nearest to (X, Y); the library
\* returns one of them, and raises on a graph without nodes (empty set here)
nearest_nodes(g, X, Y) ==
    {n \in g.nodes : \A m \in g.nodes : Dist2(n, X, Y) <= Dist2(m, X, Y)}

\* one round of relaxation of the distances d (-1: not reached) over the edges
Relax(g, d) ==
    [v \in g.nodes |->
        LET cand == {d[e[1]] + e[3] : e \in {f \in g.edges : f[2] = v /\ d[f[1]] # -1}}
            all  == IF d[v] # -1 THEN cand \cup {d[v]} ELSE cand
        IN  IF all = {} THEN -1
            ELSE CHOOSE x \in all : \A y \in all : x <= y]

RECURSIVE RelaxN(_, _, _)
RelaxN(g, d, k) ==
    LET next == Relax(g, d)
    IN  IF k = 0 \/ next = d THEN d ELSE RelaxN(g, next, k - 1)

\* length of the shortest path from src to every node of g (sum of the
\* 'length' of its edges), -1 where there is none
shortest_lengths(g, src) ==
    RelaxN(g, [v \in g.nodes |-> IF v = src THEN 0 ELSE -1], Cardinality(g.nodes))

\* ego_graph with the comparison turned round: the nodes at radius or beyond
ego_graph_beyond(g, n, radius) ==
    LET d == shortest_lengths(g, n)
    IN  {v \in g.nodes : d[v] # -1 /\ d[v] >= radius}

\* ego_graph that stops short of the radius itself
ego_graph_strict(g, n, radius) ==
    LET d == shortest_lengths(g, n)
    IN  {v \in g.nodes : d[v] # -1 /\ d[v] < radius}

\* ego_graph by straight-line distance in place of the length of the path
ego_graph_straight_line(g, n, radius) ==
    {v \in g.nodes : Dist2(v, NodePos(n).x, NodePos(n).y) <= radius * radius}

\* nx.ego_graph(G, n, radius, distance='length').nodes(): the nodes whose
\* shortest path length from n is at most radius
ego_graph(g, n, radius) ==
    LET d == shortest_lengths(g, n)
    IN  {v \in g.nodes : d[v] # -1 /\ d[v] <= radius}

\* the simple paths of g that extend p, end in t and cost at most budget
RECURSIVE PathsFrom(_, _, _, _, _)
PathsFrom(g, p, cost, t, budget) ==
    LET u == p[Len(p)]
    IN  IF u = t THEN {p}
        ELSE UNION {PathsFrom(g, Append(p, e[2]), cost + e[3], t, budget) :
                    e \in {f \in g.edges : /\ f[1] = u
                                           /\ cost + f[3] <= budget
                                           /\ \A i \in 1..Len(p) : p[i] # f[2]}}

\* nx.astar_path(G, s, t, weight='length') with the default zero heuristic:
\* a path of least total length; which one among equals depends on the heap
\* order, so every one of them is a possible result.  The empty set stands
\* for NetworkXNoPath.
astar_path(g, s, t) ==
    LET d == shortest_lengths(g, s)
    IN  IF d[t] = -1 THEN {} ELSE PathsFrom(g, <<s>>, 0, t, d[t])


(***************************************************************************)
(* The hazard data source (load_fire_data.py) and the Network Provider.    *)
(***************************************************************************)
Fire(dlat, dlon) == [latitude |-> Origin.lat + dlat, longitude |-> Origin.lon + dlon]

\* possible contents of the Fires table for 2015 / CA: no fire; one fire at
\* node 3; one fire far north and one on the meridian lon0 + 0.124; four
\* fires at nodes 3, 1, 3 and 5
Databases ==
    {<<>>,
     <<Fire(0, 1200)>>,
     <<Fire(30000, 1200), Fire(0, 12400)>>,
     <<Fire(0, 1200), Fire(0, 0), Fire(0, 1200), Fire(0, 2400)>>}

\* rows the query of get_wildfire_data selects
QueryRows(year, state) == IF year = 2015 /\ state = "CA" THEN db ELSE <<>>

\* get_wildfire_data(year, state): the records of the query, or None when
\* sqlite3 or pandas raised
get_wildfire_data(year, state) == {PyList(QueryRows(year, state)), PyNone}

\* what the caller of get_wildfire_data got, for the record
SourceKind(v) == IF v.isNone THEN "none" ELSE IF v.rows = <<>> THEN "empty" ELSE "data"

\* texts of the exceptions osmnx raises when it cannot supply a graph
ProviderErrors == {"Found no graph nodes within the requested polygon",
                   "HTTPSConnectionPool: Max retries exceeded"}

\* ox.graph_from_bbox / ox.graph_from_place: the network, or an exception
ProviderOutcomes ==
    {[ok |-> TRUE, graph |-> world, text |-> ""]}
    \cup {[ok |-> FALSE, graph |-> EmptyGraph, text |-> t] : t \in ProviderErrors}

(***************************************************************************)
(* Requests and responses of the server.                                   *)
(***************************************************************************)
RouteRequest(slat, slon, elat, elon) ==
    [kind |-> "route", start_lat |-> Origin.lat + slat, start_lon |-> Origin.lon + slon,
     end_lat |-> Origin.lat + elat, end_lon |-> Origin.lon + elon,
     year |-> 0, state |-> ""]

WildfireRequest(year, state) ==
    [kind |-> "wildfires", start_lat |-> 0, start_lon |-> 0, end_lat |-> 0, end_lon |-> 0,
     year |-> year, state |-> state]

\* from node 1 to node 5; from node 5 to node 1, three units off; from node 1
\* to node 5, fifty units north
RouteRequests ==
    {RouteRequest(0, 0, 0, 2400), RouteRequest(3, 2403, 3, 0), RouteRequest(50, 0, 50, 2400)}

WildfireRequests == {WildfireRequest(2015, "CA")}

NoRequest ==
    [kind |-> "none", start_lat |-> 0, start_lon |-> 0, end_lat |-> 0, end_lon |-> 0,
     year |-> 0, state |-> ""]

NoResponse == [status |-> 0, detail |-> <<>>, body |-> <<>>]

\* fastapi.HTTPException(status_code, detail) as the caller sees it
HTTPException(status_code, detail) == [status |-> status_code, detail |-> detail, body |-> <<>>]

\* a returned value (FastAPI answers 200)
Returned(body) == [status |-> 200, detail |-> <<>>, body |-> body]

NoWildfireData == <<"No wildfire data found for the specified year and state.">>

\* the exception get_wildfires raises, as calculate_route catches it; str() of
\* a starlette HTTPException is "<status_code>: <detail>"
NoWildfireDataError ==
    [type |-> "HTTPException",
     text |-> "404: No wildfire data found for the specified year and state."]

NetworkXNoPath == [type |-> "NetworkXNoPath", text |-> "Node not reachable"]

\* ox.nearest_nodes on a graph without nodes
NoNodesError == [type |-> "ValueError", text |-> "graph contains no nodes"]

\* G.nodes[node_id] for a node that is not in G
KeyError == [type |-> "KeyError", text |-> "node"]

ProviderError(t) == [type |-> "ProviderError", text |-> t]

\* except clauses without the NetworkXNoPath clause
route_except_generic_only(e) ==
    HTTPException(500, <<"An internal server error occurred: ", e.text>>)

\* the except clauses of calculate_route
route_except(e) ==
    IF e.type = "NetworkXNoPath"
    THEN HTTPException(404, <<"Could not find a safe path.">>)
    ELSE HTTPException(500, <<"An internal server error occurred: ", e.text>>)

\* get_wildfires(year, state), given what the data source returns if asked
get_wildfires(year, state, src) ==
    LET cache_key == <<year, state>>
    IN  IF cache_key \in DOMAIN wildfire_data_cache
        THEN [raised |-> FALSE, hotspots |-> wildfire_data_cache[cache_key],
              cache |-> wildfire_data_cache, source |-> "not_called"]
        ELSE IF Falsy(src)
        THEN [raised |-> TRUE, hotspots |-> src,
              cache |-> wildfire_data_cache, source |-> SourceKind(src)]
        ELSE [raised |-> FALSE, hotspots |-> src,
              cache |-> (cache_key :> src) @@ wildfire_data_cache,
              source |-> SourceKind(src)]

\* the 0.1 degree margin of the bounding box
Margin == 10000

\* north, south, east, west of calculate_route
BoundingBox(q) ==
    [north |-> Max(q.start_lat, q.end_lat) + Margin,
     south |-> Min(q.start_lat, q.end_lat) - Margin,
     east  |-> Max(q.start_lon, q.end_lon) + Margin,
     west  |-> Min(q.start_lon, q.end_lon) - Margin]

NoBox == [north |-> 0, south |-> 0, east |-> 0, west |-> 0]

\* format(x, ".4f"): the nearest multiple of 0.0001 degree, in units of
\* 0.0001 (no input of the model lies halfway between two)
Format4f(x) == (x + 5) \div 10

\* a key of the unformatted numbers
GraphCacheKeyUnrounded(b) == <<b.north, b.south, b.east, b.west>>

\* graph_cache_key: the four formatted numbers
GraphCacheKey(b) == <<Format4f(b.north), Format4f(b.south), Format4f(b.east), Format4f(b.west)>>

\* the test with <= in place of <
InBoxInclusive(lon, lat, b) ==
    b.west <= lon /\ lon <= b.east /\ b.south <= lat /\ lat <= b.north

\* west < lon < east and south < lat < north
InBox(lon, lat, b) == b.west < lon /\ lon < b.east /\ b.south < lat /\ lat < b.north

danger_radius_meters == 1000

\* danger_zones: (longitude, latitude) of every hotspot
DangerZones(hotspots) ==
    [i \in 1..Len(hotspots) |-> <<hotspots[i].longitude, hotspots[i].latitude>>]

\* the loop of calculate_route over danger_zones, from the i-th on: every
\* set it can leave in nodes_to_avoid, or the exception of nearest_nodes
RECURSIVE nodes_to_avoid_loop(_, _, _, _, _)
nodes_to_avoid_loop(g, danger_zones, b, acc, i) ==
    IF i > Len(danger_zones) THEN {[raised |-> FALSE, nodes |-> acc]}
    ELSE LET lon == danger_zones[i][1]
             lat == danger_zones[i][2]
         IN  IF InBox(lon, lat, b)
             THEN IF g.nodes = {} THEN {[raised |-> TRUE, nodes |-> acc]}
                  ELSE UNION {nodes_to_avoid_loop(g, danger_zones, b,
                                  acc \cup ego_graph(g, center_node, danger_radius_meters),
                                  i + 1) :
                              center_node \in nearest_nodes(g, lon, lat)}
             ELSE nodes_to_avoid_loop(g, danger_zones, b, acc, i + 1)

\* object identifiers
NoObject == <<"none", 0>>
ProviderObject(i) == <<"graph", i>>
CopyObject(r) == <<"copy", r>>

\* G_safe = G, no copy
GraphCopyAlias(r, G) == G

\* G.copy() by request r: a new object
GraphCopy(r, G) == CopyObject(r)

\* route_coords: [y, x] of every node of the path, read from g
RouteCoords(path) == [i \in 1..Len(path) |-> <<NodePos(path[i]).y, NodePos(path[i]).x>>]

NoFrame ==
    [hotspots |-> PyNone, source |-> "not_called", danger_zones |-> <<>>, bbox |-> NoBox,
     graph_cache_key |-> <<>>, G |-> NoObject, provider |-> "not_called",
     nodes_to_avoid |-> {}, G_safe |-> NoObject, start_node |-> 0, end_node |-> 0,
     safe_route_nodes |-> <<>>, exception |-> ""]


\* no run of the steps by themselves
NoTrial ==
    [stage |-> "none", G |-> EmptyGraph, danger_zones |-> <<>>, radius |-> 0,
     wider_radius |-> 0, centres |-> <<>>, nodes_to_avoid |-> {},
     wider_nodes_to_avoid |-> {}, outcome |-> "", safe_route_nodes |-> <<>>]

(***************************************************************************)
(* Scheduling.  The handlers are `async def' and run on the one event loop *)
(* of the server.  A handler gives up the loop only where it awaits        *)
(* something that suspends: `await get_wildfires(...)' runs a coroutine    *)
(* without any await of its own, and ox.graph_from_bbox is a blocking      *)
(* call, so a handler that has started runs to its end.                    *)
(***************************************************************************)
\* the scheduling if the provider call were awaited
SuspensionPointsAwaitedBuild == {"queued", "build"}

\* positions at which a request waits for the event loop
SuspensionPoints == {"queued"}

\* request r may take its next step
Scheduled(r) == running = r \/ (running = 0 /\ pc[r] \in SuspensionPoints)

\* request r moves to position l
Goto(r, l) ==
    /\ pc' = [pc EXCEPT ![r] = l]
    /\ running' = IF l = "done" \/ l \in SuspensionPoints THEN 0 ELSE r

\* request r ends with the caller-visible outcome resp
Respond(r, resp) ==
    /\ response' = [response EXCEPT ![r] = resp]
    /\ Goto(r, "done")

\* request r ends in the except clauses of calculate_route with exception e
Raise(r, e, f) ==
    /\ frame' = [frame EXCEPT ![r] = [f EXCEPT !.exception = e.text]]
    /\ Respond(r, route_except(e))

Init ==
    /\ program \in {"server", "script"}
    /\ db \in Databases
    /\ world \in Worlds
    /\ graph_cache = [k \in {} |-> NoObject]
    /\ wildfire_data_cache = [k \in {} |-> PyNone]
    /\ heap = [o \in {} |-> EmptyGraph]
    /\ builds = <<>>
    /\ running = 0
    /\ pc = [r \in Reqs |-> IF program = "script" /\ r = 1 THEN "script_fires" ELSE "idle"]
    /\ request = [r \in Reqs |-> NoRequest]
    /\ frame = [r \in Reqs |-> NoFrame]
    /\ response = [r \in Reqs |-> NoResponse]
    /\ doneAtArrival = [r \in Reqs |-> {}]
    /\ trial = NoTrial

\* a client sends a request; the slots are taken in order
Arrive(r) ==
    /\ program = "server"
    /\ pc[r] = "idle"
    /\ \A o \in Reqs : o < r => pc[o] # "idle"
    /\ \E q \in RouteRequests \cup WildfireRequests : request' = [request EXCEPT ![r] = q]
    /\ pc' = [pc EXCEPT ![r] = "queued"]
    /\ doneAtArrival' = [doneAtArrival EXCEPT ![r] = {o \in Reqs : pc[o] = "done"}]
    /\ UNCHANGED <<trial, program, db, world, graph_cache, wildfire_data_cache, heap, builds,
                   running, frame, response>>

\* GET /wildfires/{year}/{state}: the whole handler
GetWildfires(r) ==
    /\ pc[r] = "queued" /\ request[r].kind = "wildfires"
    /\ Scheduled(r)
    /\ \E src \in get_wildfire_data(request[r].year, request[r].state) :
         LET gw == get_wildfires(request[r].year, request[r].state, src)
         IN  /\ wildfire_data_cache' = gw.cache
             /\ frame' = [frame EXCEPT ![r].hotspots = gw.hotspots, ![r].source = gw.source]
             /\ Respond(r, IF gw.raised THEN HTTPException(404, NoWildfireData)
                           ELSE Returned(gw.hotspots.rows))
    /\ UNCHANGED <<trial, program, db, world, graph_cache, heap, builds, request, doneAtArrival>>

\* calculate_route, lines 74-78: hotspots = await get_wildfires(2015, 'CA')
RouteHotspots(r) ==
    /\ pc[r] = "queued" /\ request[r].kind = "route"
    /\ Scheduled(r)
    /\ \E src \in get_wildfire_data(2015, "CA") :
         LET gw == get_wildfires(2015, "CA", src)
             f  == [frame[r] EXCEPT !.hotspots = gw.hotspots, !.source = gw.source]
         IN  /\ wildfire_data_cache' = gw.cache
             /\ IF gw.raised
                THEN Raise(r, NoWildfireDataError, f)
                ELSE /\ frame' = [frame EXCEPT ![r] = f]
                     /\ Goto(r, "lookup")
                     /\ UNCHANGED response
    /\ UNCHANGED <<trial, program, db, world, graph_cache, heap, builds, request, doneAtArrival>>

\* lines 81-89: the bounding box, the key and the cache lookup
RouteLookup(r) ==
    /\ pc[r] = "lookup"
    /\ Scheduled(r)
    /\ LET b   == BoundingBox(request[r])
           key == GraphCacheKey(b)
           f   == [frame[r] EXCEPT !.bbox = b, !.graph_cache_key = key]
       IN  IF key \in DOMAIN graph_cache
           THEN /\ frame' = [frame EXCEPT ![r] = [f EXCEPT !.G = graph_cache[key]]]
                /\ Goto(r, "danger")
           ELSE /\ frame' = [frame EXCEPT ![r] = f]
                /\ Goto(r, "build")
    /\ UNCHANGED <<trial, program, db, world, graph_cache, wildfire_data_cache, heap, builds,
                   request, response, doneAtArrival>>

\* lines 91-92: G = ox.graph_from_bbox(...); graph_cache[graph_cache_key] = G
RouteBuild(r) ==
    /\ pc[r] = "build"
    /\ Scheduled(r)
    /\ \E out \in ProviderOutcomes :
         LET obj == ProviderObject(Len(builds) + 1)
             key == frame[r].graph_cache_key
         IN  /\ builds' = Append(builds, [req |-> r, key |-> key, ok |-> out.ok,
                                          obj |-> obj, graph |-> out.graph])
             /\ IF out.ok
                THEN /\ heap' = (obj :> out.graph) @@ heap
                     /\ graph_cache' = (key :> obj) @@ graph_cache
                     /\ frame' = [frame EXCEPT ![r].G = obj, ![r].provider = "ok"]
                     /\ Goto(r, "danger")
                     /\ UNCHANGED response
                ELSE /\ Raise(r, ProviderError(out.text),
                              [frame[r] EXCEPT !.provider = "failed"])
                     /\ UNCHANGED <<heap, graph_cache>>
    /\ UNCHANGED <<trial, program, db, world, wildfire_data_cache, request, doneAtArrival>>

\* lines 95-102: nodes_to_avoid
RouteDanger(r) ==
    /\ pc[r] = "danger"
    /\ Scheduled(r)
    /\ LET danger_zones == DangerZones(frame[r].hotspots.rows)
           f == [frame[r] EXCEPT !.danger_zones = danger_zones]
       IN  \E res \in nodes_to_avoid_loop(heap[f.G], danger_zones, f.bbox, {}, 1) :
         IF res.raised
         THEN Raise(r, NoNodesError, f)
         ELSE /\ frame' = [frame EXCEPT ![r] = [f EXCEPT !.nodes_to_avoid = res.nodes]]
              /\ Goto(r, "safe")
              /\ UNCHANGED response
    /\ UNCHANGED <<trial, program, db, world, graph_cache, wildfire_data_cache, heap, builds,
                   request, doneAtArrival>>

\* lines 105-106: G_safe = G.copy(); G_safe.remove_nodes_from(nodes_to_avoid)
RouteSafe(r) ==
    /\ pc[r] = "safe"
    /\ Scheduled(r)
    /\ LET G_safe == GraphCopy(r, frame[r].G)
       IN  /\ heap' = (G_safe :> remove_nodes_from(heap[frame[r].G], frame[r].nodes_to_avoid))
                      @@ heap
           /\ frame' = [frame EXCEPT ![r].G_safe = G_safe]
    /\ Goto(r, "project")
    /\ UNCHANGED <<trial, program, db, world, graph_cache, wildfire_data_cache, builds,
                   request, response, doneAtArrival>>

\* lines 107-108: start_node and end_node, the nearest nodes of G_safe
RouteProject(r) ==
    /\ pc[r] = "project"
    /\ Scheduled(r)
    /\ LET g == heap[frame[r].G_safe]
       IN  IF g.nodes = {}
           THEN Raise(r, NoNodesError, frame[r])
           ELSE /\ \E s \in nearest_nodes(g, request[r].start_lon, request[r].start_lat) :
                   \E e \in nearest_nodes(g, request[r].end_lon, request[r].end_lat) :
                      frame' = [frame EXCEPT ![r].start_node = s, ![r].end_node = e]
                /\ Goto(r, "astar")
                /\ UNCHANGED response
    /\ UNCHANGED <<trial, program, db, world, graph_cache, wildfire_data_cache, heap, builds,
                   request, doneAtArrival>>

\* line 109: safe_route_nodes = nx.astar_path(G_safe, start_node, end_node)
RouteAstar(r) ==
    /\ pc[r] = "astar"
    /\ Scheduled(r)
    /\ LET paths == astar_path(heap[frame[r].G_safe], frame[r].start_node, frame[r].end_node)
       IN  IF paths = {}
           THEN Raise(r, NetworkXNoPath, frame[r])
           ELSE /\ \E p \in paths : frame' = [frame EXCEPT ![r].safe_route_nodes = p]
                /\ Goto(r, "coords")
                /\ UNCHANGED response
    /\ UNCHANGED <<trial, program, db, world, graph_cache, wildfire_data_cache, heap, builds,
                   request, doneAtArrival>>

\* lines 112-117: the coordinates of the nodes of the path, read from G
RouteCoordinates(r) ==
    /\ pc[r] = "coords"
    /\ Scheduled(r)
    /\ LET path == frame[r].safe_route_nodes
       IN  IF \E i \in 1..Len(path) : path[i] \notin heap[frame[r].G].nodes
           THEN Raise(r, KeyError, frame[r])
           ELSE /\ Respond(r, Returned(RouteCoords(path)))
                /\ UNCHANGED frame
    /\ UNCHANGED <<trial, program, db, world, graph_cache, wildfire_data_cache, heap, builds,
                   request, doneAtArrival>>

(***************************************************************************)
(* generate_evacuation_route.py, run from top to bottom in slot 1.         *)
(***************************************************************************)
START_POINT == [lat |-> 3787160, lon |-> -12227270]
END_POINT == [lat |-> 3782720, lon |-> -12229010]
DANGER_RADIUS_METERS == 1000

\* the dummy danger zones of line 24, as (longitude, latitude)
DummyDangerZones == <<<<-12226000, 3786000>>, <<-12225000, 3785000>>>>

\* lines 17-21: the fires near Berkeley, the first three of them
RECURSIVE BerkeleyZones(_, _, _)
BerkeleyZones(all_fires, i, zones) ==
    IF i > Len(all_fires) THEN zones
    ELSE LET fire == all_fires[i]
         IN  IF /\ -12240000 < fire.longitude /\ fire.longitude < -12210000
                /\ 3780000 < fire.latitude /\ fire.latitude < 3790000
             THEN LET more == Append(zones, <<fire.longitude, fire.latitude>>)
                  IN  IF Len(more) >= 3 THEN more ELSE BerkeleyZones(all_fires, i + 1, more)
             ELSE BerkeleyZones(all_fires, i + 1, zones)

\* lines 15-24: DANGER_ZONES
DANGER_ZONES(all_fires) ==
    LET zones == IF Falsy(all_fires) THEN <<>> ELSE BerkeleyZones(all_fires.rows, 1, <<>>)
    IN  IF zones = <<>> THEN DummyDangerZones ELSE zones

\* the loop of lines 33-36 over DANGER_ZONES, from the i-th on
RECURSIVE script_avoid_loop(_, _, _, _)
script_avoid_loop(g, zones, acc, i) ==
    IF i > Len(zones) THEN {[raised |-> FALSE, nodes |-> acc]}
    ELSE IF g.nodes = {} THEN {[raised |-> TRUE, nodes |-> acc]}
    ELSE UNION {script_avoid_loop(g, zones,
                    acc \cup ego_graph(g, center_node, DANGER_RADIUS_METERS), i + 1) :
                center_node \in nearest_nodes(g, zones[i][1], zones[i][2])}

\* the script dies of an exception nothing catches
Traceback(e) == [status |-> 1, detail |-> <<"Traceback (most recent call last)", e.text>>,
                 body |-> <<>>]

\* what the script prints at its end
Printed(text, body) == [status |-> 0, detail |-> <<text>>, body |-> body]

ScriptEnd(resp) ==
    /\ response' = [response EXCEPT ![1] = resp]
    /\ pc' = [pc EXCEPT ![1] = "done"]

\* lines 13-24
ScriptFires ==
    /\ pc[1] = "script_fires"
    /\ \E all_fires \in get_wildfire_data(2015, "CA") :
         frame' = [frame EXCEPT ![1].hotspots = all_fires,
                                ![1].source = SourceKind(all_fires),
                                ![1].danger_zones = DANGER_ZONES(all_fires)]
    /\ pc' = [pc EXCEPT ![1] = "script_graph"]
    /\ UNCHANGED <<trial, program, db, world, graph_cache, wildfire_data_cache, heap, builds,
                   running, request, response, doneAtArrival>>

\* line 28: G = ox.graph_from_place(PLACE_NAME, network_type='drive')
ScriptGraph ==
    /\ pc[1] = "script_graph"
    /\ \E out \in ProviderOutcomes :
         LET obj == ProviderObject(Len(builds) + 1)
         IN  /\ builds' = Append(builds, [req |-> 1, key |-> <<>>, ok |-> out.ok,
                                          obj |-> obj, graph |-> out.graph])
             /\ IF out.ok
                THEN /\ heap' = (obj :> out.graph) @@ heap
                     /\ frame' = [frame EXCEPT ![1].G = obj, ![1].provider = "ok"]
                     /\ pc' = [pc EXCEPT ![1] = "script_danger"]
                     /\ UNCHANGED response
                ELSE /\ frame' = [frame EXCEPT ![1].provider = "failed",
                                               ![1].exception = out.text]
                     /\ ScriptEnd(Traceback(ProviderError(out.text)))
                     /\ UNCHANGED heap
    /\ UNCHANGED <<trial, program, db, world, graph_cache, wildfire_data_cache,
                   running, request, doneAtArrival>>

\* lines 32-36
ScriptDanger ==
    /\ pc[1] = "script_danger"
    /\ \E res \in script_avoid_loop(heap[frame[1].G], frame[1].danger_zones, {}, 1) :
         IF res.raised
         THEN /\ ScriptEnd(Traceback(NoNodesError))
              /\ frame' = [frame EXCEPT ![1].exception = NoNodesError.text]
         ELSE /\ frame' = [frame EXCEPT ![1].nodes_to_avoid = res.nodes]
              /\ pc' = [pc EXCEPT ![1] = "script_safe"]
              /\ UNCHANGED response
    /\ UNCHANGED <<trial, program, db, world, graph_cache, wildfire_data_cache, heap, builds,
                   running, request, doneAtArrival>>

\* lines 40-41
ScriptSafe ==
    /\ pc[1] = "script_safe"
    /\ LET G_safe == GraphCopy(1, frame[1].G)
       IN  /\ heap' = (G_safe :> remove_nodes_from(heap[frame[1].G], frame[1].nodes_to_avoid))
                      @@ heap
           /\ frame' = [frame EXCEPT ![1].G_safe = G_safe]
    /\ pc' = [pc EXCEPT ![1] = "script_project"]
    /\ UNCHANGED <<trial, program, db, world, graph_cache, wildfire_data_cache, builds,
                   running, request, response, doneAtArrival>>

\* lines 43-44, outside the try
ScriptProject ==
    /\ pc[1] = "script_project"
    /\ LET g == heap[frame[1].G_safe]
       IN  IF g.nodes = {}
           THEN /\ ScriptEnd(Traceback(NoNodesError))
                /\ frame' = [frame EXCEPT ![1].exception = NoNodesError.text]
           ELSE /\ \E s \in nearest_nodes(g, START_POINT.lon, START_POINT.lat) :
                   \E e \in nearest_nodes(g, END_POINT.lon, END_POINT.lat) :
                      frame' = [frame EXCEPT ![1].start_node = s, ![1].end_node = e]
                /\ pc' = [pc EXCEPT ![1] = "script_astar"]
                /\ UNCHANGED response
    /\ UNCHANGED <<trial, program, db, world, graph_cache, wildfire_data_cache, heap, builds,
                   running, request, doneAtArrival>>

\* lines 47-93: the route, the map, and the except clauses
ScriptRoute ==
    /\ pc[1] = "script_astar"
    /\ LET paths == astar_path(heap[frame[1].G_safe], frame[1].start_node, frame[1].end_node)
       IN  IF paths = {}
           THEN /\ ScriptEnd(Printed("Error: Could not find a safe path.", <<>>))
                /\ frame' = [frame EXCEPT ![1].exception = NetworkXNoPath.text]
           ELSE \E p \in paths :
                   /\ frame' = [frame EXCEPT ![1].safe_route_nodes = p]
                   /\ ScriptEnd(Printed("Evacuation map saved!", RouteCoords(p)))
    /\ UNCHANGED <<trial, program, db, world, graph_cache, wildfire_data_cache, heap, builds,
                   running, request, doneAtArrival>>

Next ==
    \/ \E r \in Reqs :
        \/ Arrive(r)
        \/ GetWildfires(r)
        \/ RouteHotspots(r)
        \/ RouteLookup(r)
        \/ RouteBuild(r)
        \/ RouteDanger(r)
        \/ RouteSafe(r)
        \/ RouteProject(r)
        \/ RouteAstar(r)
        \/ RouteCoordinates(r)
    \/ ScriptFires
    \/ ScriptGraph
    \/ ScriptDanger
    \/ ScriptSafe
    \/ ScriptProject
    \/ ScriptRoute

Spec == Init /\ [][Next]_vars



(***************************************************************************)
(* The exclusion and routing steps by themselves (main.py lines 97-109,    *)
(* generate_evacuation_route.py lines 32-49), for any danger radius: the   *)
(* loop over the danger zones is run once per zone, side by side for a     *)
(* radius and for a wider one, and the route is then planned on the graph  *)
(* without the nodes excluded for the first radius.                        *)
(***************************************************************************)
\* five nodes in a line, every edge 100 m
ScenarioLineGraph ==
    [nodes |-> 1..5,
     edges |-> TwoWay(1, 2, 100) \cup TwoWay(2, 3, 100)
               \cup TwoWay(3, 4, 100) \cup TwoWay(4, 5, 100)]

\* the line with an edge of length 0 between nodes 3 and 4
ZeroLengthGraph ==
    [nodes |-> 1..5,
     edges |-> TwoWay(1, 2, 600) \cup TwoWay(2, 3, 600)
               \cup TwoWay(3, 4, 0) \cup TwoWay(4, 5, 600)]

\* the line on winding roads: every edge 1500 m between nodes 600 units apart
WindingGraph ==
    [nodes |-> 1..5,
     edges |-> TwoWay(1, 2, 1500) \cup TwoWay(2, 3, 1500)
               \cup TwoWay(3, 4, 1500) \cup TwoWay(4, 5, 1500)]

TrialGraphs ==
    {ScenarioLineGraph, LineGraph, BypassGraph, OneWayGraph, ZeroLengthGraph, WindingGraph}

ZoneAt(dlat, dlon) == <<Origin.lon + dlon, Origin.lat + dlat>>

\* no hazard; one at node 3; one next to node 3; one halfway between nodes 2
\* and 3; one at node 1 and one at node 5
TrialZones ==
    {<<>>, <<ZoneAt(0, 1200)>>, <<ZoneAt(0, 1000)>>, <<ZoneAt(0, 900)>>,
     <<ZoneAt(0, 0), ZoneAt(0, 2400)>>}

Radii == {0, 50, 100, 600, 1000, 1500}

\* the route is asked from node 1 to node 5
TrialRequest == RouteRequest(0, 0, 0, 2400)

InitTrial ==
    /\ program = "trial"
    /\ db = <<>>
    /\ world = EmptyGraph
    /\ graph_cache = [k \in {} |-> NoObject]
    /\ wildfire_data_cache = [k \in {} |-> PyNone]
    /\ heap = [o \in {} |-> EmptyGraph]
    /\ builds = <<>>
    /\ running = 0
    /\ pc = [r \in Reqs |-> "idle"]
    /\ request = [r \in Reqs |-> NoRequest]
    /\ frame = [r \in Reqs |-> NoFrame]
    /\ response = [r \in Reqs |-> NoResponse]
    /\ doneAtArrival = [r \in Reqs |-> {}]
    /\ \E g \in TrialGraphs : \E zones \in TrialZones : \E r1 \in Radii : \E r2 \in Radii :
          /\ r1 <= r2
          /\ trial = [NoTrial EXCEPT !.stage = "loop", !.G = g, !.danger_zones = zones,
                                     !.radius = r1, !.wider_radius = r2]

\* one turn of the loop: center_node, nodes_within_radius, nodes_to_avoid.update
TrialZone ==
    /\ trial.stage = "loop"
    /\ Len(trial.centres) < Len(trial.danger_zones)
    /\ LET zone == trial.danger_zones[Len(trial.centres) + 1]
       IN  \E center_node \in nearest_nodes(trial.G, zone[1], zone[2]) :
              trial' = [trial EXCEPT
                          !.centres = Append(@, center_node),
                          !.nodes_to_avoid = @ \cup ego_graph(trial.G, center_node, trial.radius),
                          !.wider_nodes_to_avoid =
                              @ \cup ego_graph(trial.G, center_node, trial.wider_radius)]
    /\ UNCHANGED <<program, db, world, graph_cache, wildfire_data_cache, heap, builds,
                   running, pc, request, frame, response, doneAtArrival>>

\* after the loop: G_safe, start_node, end_node and nx.astar_path
TrialRoute ==
    /\ trial.stage = "loop"
    /\ Len(trial.centres) = Len(trial.danger_zones)
    /\ LET G_safe == remove_nodes_from(trial.G, trial.nodes_to_avoid)
       IN  IF G_safe.nodes = {}
           THEN trial' = [trial EXCEPT !.stage = "done", !.outcome = NoNodesError.type]
           ELSE \E s \in nearest_nodes(G_safe, TrialRequest.start_lon, TrialRequest.start_lat) :
                \E e \in nearest_nodes(G_safe, TrialRequest.end_lon, TrialRequest.end_lat) :
                   LET paths == astar_path(G_safe, s, e)
                   IN  IF paths = {}
                       THEN trial' = [trial EXCEPT !.stage = "done",
                                                   !.outcome = NetworkXNoPath.type]
                       ELSE \E p \in paths :
                               trial' = [trial EXCEPT !.stage = "done", !.outcome = "route",
                                                      !.safe_route_nodes = p]
    /\ UNCHANGED <<program, db, world, graph_cache, wildfire_data_cache, heap, builds,
                   running, pc, request, frame, response, doneAtArrival>>

NextTrial ==
    \/ TrialZone
    \/ TrialRoute

SpecTrial == InitTrial /\ [][NextTrial]_vars

(***************************************************************************)
(* Vocabulary of the properties.                                           *)
(***************************************************************************)
IsRoute(r) == request[r].kind = "route"
IsScript(r) == program = "script" /\ r = 1
Done(r) == pc[r] = "done"

\* r returned a route (the server answered 200, the script saved its map)
ReturnedRoute(r) ==
    /\ Done(r)
    /\ \/ IsRoute(r) /\ response[r].status = 200
       \/ IsScript(r) /\ response[r].detail = <<"Evacuation map saved!">>

NotFoundOutcome(resp) ==
    resp.status = 404 /\ resp.detail = <<"Could not find a safe path.">>

InternalErrorOutcome(resp) ==
    /\ resp.status = 500
    /\ Len(resp.detail) = 2
    /\ resp.detail[1] = "An internal server error occurred: "

\* r2 arrived after r1 was answered
Sequential(r1, r2) == r1 \in doneAtArrival[r2]

\* the two requests have the same bounding box to four decimals
SameCanonicalBox(q1, q2) ==
    LET b1 == BoundingBox(q1)
        b2 == BoundingBox(q2)
    IN  /\ Format4f(b1.north) = Format4f(b2.north)
        /\ Format4f(b1.south) = Format4f(b2.south)
        /\ Format4f(b1.east) = Format4f(b2.east)
        /\ Format4f(b1.west) = Format4f(b2.west)

\* the nodes of g that a walk along its edges reaches from the set S
RECURSIVE ReachableFrom(_, _)
ReachableFrom(g, S) ==
    LET more == S \cup {e[2] : e \in {f \in g.edges : f[1] \in S}}
    IN  IF more = S THEN S ELSE ReachableFrom(g, more)

\* the calls of the provider made by the requests in R
BuildsBy(R) == {i \in DOMAIN builds : builds[i].req \in R}

(***************************************************************************)
(* C1: whenever calculate_route or the script returns a route, no node of  *)
(* the route, its first and last included, is in the excluded-node set of  *)
(* that request, and no returned coordinate is that of an excluded node.   *)
(***************************************************************************)
C1_RouteAvoidsExcludedNodes ==
    \A r \in Reqs :
        ReturnedRoute(r) =>
            /\ Len(frame[r].safe_route_nodes) >= 1
            /\ \A i \in 1..Len(frame[r].safe_route_nodes) :
                  frame[r].safe_route_nodes[i] \notin frame[r].nodes_to_avoid
            /\ frame[r].start_node \notin frame[r].nodes_to_avoid
            /\ frame[r].end_node \notin frame[r].nodes_to_avoid
            /\ \A i \in 1..Len(response[r].body) :
                  \A n \in frame[r].nodes_to_avoid :
                     response[r].body[i] # <<NodePos(n).y, NodePos(n).x>>

\* a route of several nodes returned although nodes were excluded
C1_Witness ==
    \E r \in Reqs :
        /\ ReturnedRoute(r)
        /\ frame[r].nodes_to_avoid # {}
        /\ Len(frame[r].safe_route_nodes) > 1

(***************************************************************************)
(* C2: every graph in graph_cache has the nodes and edges the Network      *)
(* Provider returned it with; the removal of the danger zone touches the   *)
(* copy of the request only.                                               *)
(***************************************************************************)
C2_CachedGraphNeverMutated ==
    \A key \in DOMAIN graph_cache :
        \E i \in DOMAIN builds :
            /\ builds[i].ok
            /\ builds[i].obj = graph_cache[key]
            /\ heap[graph_cache[key]] = builds[i].graph

\* a request has removed nodes from its copy of a cached graph
C2_Witness ==
    \E r \in Reqs :
        /\ IsRoute(r) /\ Done(r)
        /\ frame[r].nodes_to_avoid # {}
        /\ frame[r].G_safe # NoObject
        /\ frame[r].graph_cache_key \in DOMAIN graph_cache
        /\ graph_cache[frame[r].graph_cache_key] = frame[r].G
        /\ heap[frame[r].G_safe] # heap[frame[r].G]

(***************************************************************************)
(* C3 (as claimed): when the hazard source returns an empty sequence,      *)
(* route planning goes on without exclusions and answers with a route or   *)
(* with no-safe-path, never with an error: the excluded set is empty and   *)
(* the safe subgraph is the network itself.                                *)
(***************************************************************************)
C3_EmptyHazardsMeanNoExclusions ==
    \A r \in Reqs :
        (IsRoute(r) \/ IsScript(r)) /\ Done(r) /\ frame[r].source = "empty" =>
            /\ ~InternalErrorOutcome(response[r])
            /\ frame[r].danger_zones = <<>>
            /\ frame[r].nodes_to_avoid = {}
            /\ frame[r].provider = "ok" => heap[frame[r].G_safe] = heap[frame[r].G]

(***************************************************************************)
(* C4: when the safe subgraph has no path from the projected start node to *)
(* the projected end node, calculate_route answers 404 'Could not find a   *)
(* safe path.' and not the internal error.                                 *)
(***************************************************************************)
C4_NoPathIsNotFound ==
    \A r \in Reqs :
        /\ IsRoute(r) /\ Done(r)
        /\ frame[r].start_node # 0 /\ frame[r].end_node # 0
        /\ frame[r].end_node
               \notin ReachableFrom(heap[frame[r].G_safe], {frame[r].start_node})
        => /\ NotFoundOutcome(response[r])
           /\ ~InternalErrorOutcome(response[r])

\* a request whose end node was cut off by the danger zone got the 404
C4_Witness ==
    \E r \in Reqs :
        /\ IsRoute(r) /\ Done(r)
        /\ frame[r].start_node # 0 /\ frame[r].end_node # 0
        /\ frame[r].nodes_to_avoid # {}
        /\ frame[r].end_node
               \notin ReachableFrom(heap[frame[r].G_safe], {frame[r].start_node})
        /\ frame[r].end_node \in ReachableFrom(heap[frame[r].G], {frame[r].start_node})
        /\ NotFoundOutcome(response[r])

(***************************************************************************)
(* C5 (as claimed): the provider build is started at most once for a key.  *)
(***************************************************************************)
C5_AtMostOneBuildStartedPerKey ==
    program = "server" =>
        \A i, j \in DOMAIN builds : i # j => builds[i].key # builds[j].key

(***************************************************************************)
(* C5 (amended): under any interleaving of requests with the same key, no  *)
(* two of them are between their cache miss and their build at once, and a *)
(* build for a key is started only if every earlier build for that key     *)
(* raised: at most one build per key returns a graph, and it is the one    *)
(* the cache holds.                                                        *)
(***************************************************************************)
C5_NoDuplicateBuild ==
    program = "server" =>
        /\ \A i, j \in DOMAIN builds :
              i < j /\ builds[i].key = builds[j].key => ~builds[i].ok
        /\ \A r1, r2 \in Reqs :
              r1 # r2 /\ pc[r1] = "build" /\ pc[r2] = "build" =>
                  frame[r1].graph_cache_key # frame[r2].graph_cache_key
        /\ \A i \in DOMAIN builds :
              builds[i].ok => graph_cache[builds[i].key] = builds[i].obj

\* two requests in flight together for one key: one built, the other reused
C5_Witness ==
    \E r1, r2 \in Reqs :
        /\ r1 # r2 /\ IsRoute(r1) /\ IsRoute(r2) /\ Done(r1) /\ Done(r2)
        /\ ~Sequential(r1, r2) /\ ~Sequential(r2, r1)
        /\ frame[r1].graph_cache_key = frame[r2].graph_cache_key
        /\ frame[r1].provider = "ok"
        /\ frame[r2].provider = "not_called"
        /\ frame[r2].G = frame[r1].G

(***************************************************************************)
(* C6 (as claimed): for any two sequential requests that produce the same  *)
(* canonical bounding-box key, the provider is called exactly once, by the *)
(* first, and the second uses the same graph instance.                     *)
(***************************************************************************)
C6_ExactlyOneProviderCall ==
    \A r1, r2 \in Reqs :
        /\ IsRoute(r1) /\ IsRoute(r2) /\ Done(r1) /\ Done(r2)
        /\ Sequential(r1, r2)
        /\ SameCanonicalBox(request[r1], request[r2])
        /\ frame[r1].graph_cache_key # <<>>
        /\ frame[r1].graph_cache_key = frame[r2].graph_cache_key
        => /\ Cardinality(BuildsBy({r1, r2})) = 1
           /\ \A i \in BuildsBy({r1, r2}) : builds[i].req = r1
           /\ frame[r2].G = frame[r1].G

(***************************************************************************)
(* C6 (amended): for any two sequential requests with the same canonical   *)
(* bounding box of which the first got a graph, the second does not call   *)
(* the provider and uses the graph instance of the first; the provider was *)
(* called once if the first request missed the cache, and not at all       *)
(* otherwise.                                                              *)
(***************************************************************************)
C6_SecondRequestReusesGraph ==
    \A r1, r2 \in Reqs :
        /\ IsRoute(r1) /\ IsRoute(r2) /\ Done(r1) /\ Done(r2)
        /\ Sequential(r1, r2)
        /\ SameCanonicalBox(request[r1], request[r2])
        /\ frame[r1].G # NoObject
        => /\ frame[r2].provider = "not_called"
           /\ frame[r2].G = frame[r1].G
           /\ BuildsBy({r2}) = {}
           /\ Cardinality(BuildsBy({r1})) = IF frame[r1].provider = "ok" THEN 1 ELSE 0

\* two sequential requests with different coordinates and the same key: the
\* first called the provider, the second used its graph
C6_Witness ==
    \E r1, r2 \in Reqs :
        /\ IsRoute(r1) /\ IsRoute(r2) /\ Done(r1) /\ Done(r2)
        /\ Sequential(r1, r2)
        /\ request[r1] # request[r2]
        /\ SameCanonicalBox(request[r1], request[r2])
        /\ frame[r1].provider = "ok"
        /\ frame[r2].G = frame[r1].G
        /\ Cardinality(BuildsBy({r1, r2})) = 1

(***************************************************************************)
(* C7 (as claimed): when the Network Provider fails, calculate_route       *)
(* answers with an outcome that is neither the not-found outcome nor the   *)
(* generic internal error.                                                 *)
(***************************************************************************)
C7_ProviderFailureIsDistinct ==
    \A r \in Reqs :
        IsRoute(r) /\ Done(r) /\ frame[r].provider = "failed" =>
            /\ ~NotFoundOutcome(response[r])
            /\ ~InternalErrorOutcome(response[r])

(***************************************************************************)
(* C8 (as claimed): at either endpoint, the outcome of an empty hazard     *)
(* list differs from the outcome of a failed hazard source (None) and of a *)
(* failed Network Provider.                                                *)
(***************************************************************************)
C8_EmptyAndErrorDiffer ==
    \A r1, r2 \in Reqs :
        /\ Done(r1) /\ Done(r2)
        /\ request[r1].kind = request[r2].kind
        /\ request[r1].kind \in {"route", "wildfires"}
        /\ frame[r1].source = "empty"
        /\ frame[r2].source = "none" \/ frame[r2].provider = "failed"
        => response[r1] # response[r2]

(***************************************************************************)
(* C9 (as claimed): two calculate_route requests that fail with different  *)
(* internal exception texts get the same internal-error response.          *)
(***************************************************************************)
C9_InternalErrorHidesTheException ==
    \A r1, r2 \in Reqs :
        /\ IsRoute(r1) /\ IsRoute(r2) /\ Done(r1) /\ Done(r2)
        /\ InternalErrorOutcome(response[r1])
        /\ InternalErrorOutcome(response[r2])
        /\ frame[r1].exception # frame[r2].exception
        => response[r1] = response[r2]

(***************************************************************************)
(* C10: when the loop of calculate_route over the danger zones has ended,  *)
(* every node it put in nodes_to_avoid is there on account of a hazard     *)
(* strictly inside the bounding box of the request: it lies within the     *)
(* danger radius of a nearest node of such a hazard.  Hazards on the       *)
(* boundary or outside add nothing, whatever the graph.                    *)
(***************************************************************************)
C10_OnlyHazardsStrictlyInside ==
    \A r \in Reqs :
        IsRoute(r) /\ pc[r] = "safe" =>
            LET q == request[r]
                g == heap[frame[r].G]
                fires == frame[r].hotspots.rows
                inside == {i \in 1..Len(fires) :
                             /\ Min(q.start_lon, q.end_lon) - Margin < fires[i].longitude
                             /\ fires[i].longitude < Max(q.start_lon, q.end_lon) + Margin
                             /\ Min(q.start_lat, q.end_lat) - Margin < fires[i].latitude
                             /\ fires[i].latitude < Max(q.start_lat, q.end_lat) + Margin}
                centres == UNION {nearest_nodes(g, fires[i].longitude, fires[i].latitude) :
                                  i \in inside}
            IN  frame[r].nodes_to_avoid
                    \subseteq UNION {ego_graph(g, c, danger_radius_meters) : c \in centres}

\* a request ended the loop with a hazard exactly on the east side of its
\* box and one outside, and excluded nothing
C10_Witness ==
    \E r \in Reqs :
        /\ IsRoute(r)
        /\ pc[r] = "safe"
        /\ \E i \in 1..Len(frame[r].danger_zones) :
              /\ frame[r].danger_zones[i][1] = frame[r].bbox.east
              /\ frame[r].bbox.south < frame[r].danger_zones[i][2]
              /\ frame[r].danger_zones[i][2] < frame[r].bbox.north
        /\ \E i \in 1..Len(frame[r].danger_zones) :
              frame[r].danger_zones[i][2] > frame[r].bbox.north
        /\ frame[r].nodes_to_avoid = {}

\* a request ended the loop with a hazard strictly inside its box, and
\* excluded the nodes around it
C10_WitnessInside ==
    \E r \in Reqs :
        /\ IsRoute(r)
        /\ pc[r] = "safe"
        /\ \E i \in 1..Len(frame[r].danger_zones) :
              InBox(frame[r].danger_zones[i][1], frame[r].danger_zones[i][2], frame[r].bbox)
        /\ frame[r].nodes_to_avoid # {}


(***************************************************************************)
(* C11: for a fixed network and hazard set, the excluded-node set does not *)
(* shrink when the danger radius grows: for radii 0 <= r1 <= r2, what is   *)
(* excluded with r1 is excluded with r2.                                   *)
(***************************************************************************)
C11_ExcludedMonotoneInRadius ==
    trial.stage # "none" /\ 0 <= trial.radius /\ trial.radius <= trial.wider_radius =>
        trial.nodes_to_avoid \subseteq trial.wider_nodes_to_avoid

\* the loop has ended with a non-empty set for the smaller radius and a
\* strictly larger one for the wider radius
C11_Witness ==
    /\ trial.stage = "done"
    /\ trial.radius < trial.wider_radius
    /\ trial.nodes_to_avoid # {}
    /\ trial.nodes_to_avoid # trial.wider_nodes_to_avoid


\* the nodes of the trial's graph that some path of total length at most
\* radius reaches from one of the centres
WithinPathLength(radius) ==
    {v \in trial.G.nodes :
        \E k \in 1..Len(trial.centres) :
            PathsFrom(trial.G, <<trial.centres[k]>>, 0, v, radius) # {}}

TrialCentres == {trial.centres[k] : k \in 1..Len(trial.centres)}

\* scenario A: the 100 m line, one hazard at node 3, radius 50 m
ScenarioA ==
    /\ trial.G = ScenarioLineGraph
    /\ trial.danger_zones = <<ZoneAt(0, 1200)>>
    /\ trial.radius = 50

(***************************************************************************)
(* C12: the excluded-node set is the union, over the hazard points         *)
(* considered so far, of the nodes whose shortest path length (sum of the  *)
(* edge lengths, not the straight-line distance) from the one nearest node *)
(* of the hazard is at most the danger radius; in scenario A the set is    *)
(* {3} and the route from node 1 to node 5 ends in NetworkXNoPath.         *)
(***************************************************************************)
C12_ExcludedIsUnionOfPathBalls ==
    trial.stage # "none" =>
        /\ \A k \in 1..Len(trial.centres) :
              trial.centres[k] \in nearest_nodes(trial.G, trial.danger_zones[k][1],
                                                 trial.danger_zones[k][2])
        /\ trial.nodes_to_avoid = WithinPathLength(trial.radius)
        /\ trial.wider_nodes_to_avoid = WithinPathLength(trial.wider_radius)
        /\ ScenarioA /\ trial.stage = "done" =>
              /\ trial.nodes_to_avoid = {3}
              /\ trial.outcome = "NetworkXNoPath"

\* scenario A has been run to its end
C12_Witness ==
    /\ ScenarioA
    /\ trial.stage = "done"
    /\ trial.centres = <<3>>
    /\ trial.nodes_to_avoid = {3}
    /\ trial.outcome = "NetworkXNoPath"

\* on winding roads the neighbours of the hazard's node are nearer than the
\* radius in a straight line and further by road, and are not excluded
C12_WitnessWinding ==
    /\ trial.G = WindingGraph
    /\ trial.stage = "done"
    /\ trial.radius = 1000
    /\ trial.centres = <<3>>
    /\ trial.nodes_to_avoid = {3}

(***************************************************************************)
(* C13 (as claimed): with danger radius 0 each hazard excludes its nearest *)
(* node and no other, on every network with non-negative edge lengths.     *)
(***************************************************************************)
C13_RadiusZeroExcludesOnlyNearest ==
    trial.stage # "none" /\ trial.radius = 0 =>
        trial.nodes_to_avoid = TrialCentres

\* the edges of length 0 of the trial's graph
ZeroLengthEdges == [nodes |-> trial.G.nodes, edges |-> {e \in trial.G.edges : e[3] = 0}]

(***************************************************************************)
(* C13 (amended): with danger radius 0 each hazard excludes its nearest    *)
(* node and the nodes at path length 0 from it, which edges of length 0    *)
(* alone lead to, and no other node; on a network whose edges all have a   *)
(* positive length it excludes its nearest node only.                      *)
(***************************************************************************)
C13_RadiusZeroExcludesZeroDistance ==
    trial.stage # "none" /\ trial.radius = 0 =>
        /\ trial.nodes_to_avoid = ReachableFrom(ZeroLengthEdges, TrialCentres)
        /\ ZeroLengthEdges.edges = {} => trial.nodes_to_avoid = TrialCentres

\* radius 0 around node 3, which an edge of length 0 joins to node 4
C13_Witness ==
    /\ trial.stage = "done"
    /\ trial.radius = 0
    /\ trial.G = ZeroLengthGraph
    /\ trial.centres = <<3>>
    /\ trial.nodes_to_avoid = {3, 4}

(***************************************************************************)
(* C14 (as claimed): when the removal of the excluded nodes cuts the start *)
(* or the end off, up to a safe subgraph without any node, the request     *)
(* ends with 404 'Could not find a safe path.' and not with the internal   *)
(* error.                                                                  *)
(***************************************************************************)
C14_CutOffIsNotFound ==
    \A r \in Reqs :
        /\ IsRoute(r) /\ Done(r)
        /\ frame[r].G_safe # NoObject
        /\ frame[r].nodes_to_avoid # {}
        /\ IF heap[frame[r].G_safe].nodes = {} THEN TRUE
           ELSE /\ frame[r].start_node # 0 /\ frame[r].end_node # 0
                /\ frame[r].end_node
                       \notin ReachableFrom(heap[frame[r].G_safe], {frame[r].start_node})
        => /\ NotFoundOutcome(response[r])
           /\ ~InternalErrorOutcome(response[r])

\* a step that changes graph_cache is the build of a request that missed the
\* cache, the provider returned, and the one new entry is its graph
CacheGainsOneEntry ==
    graph_cache' # graph_cache =>
        \E r \in Reqs :
            LET key == frame[r].graph_cache_key
            IN  /\ pc[r] = "build"
                /\ frame'[r].provider = "ok"
                /\ Len(builds') = Len(builds) + 1
                /\ builds'[Len(builds')].ok
                /\ builds'[Len(builds')].req = r
                /\ key \notin DOMAIN graph_cache
                /\ DOMAIN graph_cache' = DOMAIN graph_cache \cup {key}
                /\ graph_cache'[key] = frame'[r].G
                /\ \A k \in DOMAIN graph_cache : graph_cache'[k] = graph_cache[k]

\* the graph a request built stays cached whatever becomes of the request,
\* and a request for which the provider raised or was not called made no entry
BuiltGraphStaysCached ==
    \A r \in Reqs :
        IsRoute(r) =>
            /\ frame[r].provider = "ok" =>
                  /\ frame[r].graph_cache_key \in DOMAIN graph_cache
                  /\ graph_cache[frame[r].graph_cache_key] = frame[r].G
            /\ frame[r].provider # "ok" =>
                  \A i \in DOMAIN builds :
                     builds[i].req = r =>
                        \A k \in DOMAIN graph_cache : graph_cache[k] # builds[i].obj

(***************************************************************************)
(* C15: graph_cache changes only by gaining one entry when the provider    *)
(* returns on a cache miss: a request whose provider call raises, or which *)
(* fails before the lookup, leaves it unchanged; no entry is overwritten   *)
(* or removed; and a graph built for a request that then finds no safe     *)
(* path stays cached for later requests.                                   *)
(***************************************************************************)
C15_CacheOnlyGrowsOnSuccessfulBuild ==
    [][CacheGainsOneEntry]_vars /\ []BuiltGraphStaysCached

\* a request built a graph and got the 404; a later request used that graph
C15_Witness ==
    \E r1, r2 \in Reqs :
        /\ IsRoute(r1) /\ IsRoute(r2) /\ Done(r1) /\ Done(r2)
        /\ Sequential(r1, r2)
        /\ frame[r1].provider = "ok"
        /\ NotFoundOutcome(response[r1])
        /\ frame[r2].provider = "not_called"
        /\ frame[r2].G = frame[r1].G
        /\ graph_cache[frame[r1].graph_cache_key] = frame[r1].G

\* a request whose provider call raised left graph_cache as it was, empty
C15_WitnessFailure ==
    \E r \in Reqs :
        /\ IsRoute(r) /\ Done(r)
        /\ frame[r].provider = "failed"
        /\ DOMAIN graph_cache = {}

====
